---------------------------- MODULE Spec2Model ----------------------------
(***************************************************************************)
(* A model of the map search assistant: the App component's session state  *)
(* and handlers, the MapUpdater view reconciler with the Leaflet map it    *)
(* drives, and the coordinate extractor parseCoordinatesFromText.          *)
(*                                                                         *)
(* Coordinates are integers in units of 1e-4 degree ("ticks"), so that the *)
(* reconciler's threshold 0.0001 is one tick.  A text is a sequence of     *)
(* tokens; each token is one character of the class the extractor's        *)
(* regular expression distinguishes, except that a word and a coordinate   *)
(* annotation are single tokens.                                           *)
(***************************************************************************)
EXTENDS Integers, Sequences, FiniteSets, TLC

(***************************************************************************)
(* Bounds of the model.                                                    *)
(***************************************************************************)
MaxQueries == 2
FitCap == 2
MaxTextLen == 3
MaxTimers == 2

(***************************************************************************)
(* Program constants.                                                      *)
(***************************************************************************)
DEFAULT_ZOOM == 13
SelectZoom == 16
FitMaxZoom == 16
FitPadding == 50
ZoomButtonMax == 18
ZoomButtonMin == 3
EpsTicks == 1
SaveTolTicks == 1
MapMaxZoom == 18
NaN == 999999999

DEFAULT_CENTER == [lat |-> 407128, lng |-> -740060]

(***************************************************************************)
(* Helpers on sequences and integers.                                      *)
(***************************************************************************)
Min(a, b) == IF a < b THEN a ELSE b
Max(a, b) == IF a > b THEN a ELSE b

RECURSIVE MinOf(_)
MinOf(s) == IF Len(s) = 1 THEN s[1] ELSE Min(s[1], MinOf(Tail(s)))

RECURSIVE MaxOf(_)
MaxOf(s) == IF Len(s) = 1 THEN s[1] ELSE Max(s[1], MaxOf(Tail(s)))

\* The first element cands[i] of the sequence cands with ok[i], as <<e>>; <<>> if none.
FirstThat(cands, ok) ==
    LET I == {i \in 1..Len(cands) : ok[i]}
    IN  IF I = {} THEN <<>> ELSE <<cands[CHOOSE i \in I : \A j \in I : i <= j]>>

\* <<lo, lo+1, ..., hi>>, empty when hi < lo.
Range(lo, hi) == [i \in 1..(hi - lo + 1) |-> lo + i - 1]

\* <<hi, hi-1, ..., lo>>, empty when hi < lo.
RangeDown(hi, lo) == [i \in 1..(hi - lo + 1) |-> hi - i + 1]

(***************************************************************************)
(* Tokens of a text.  k is the character class; for an annotation a and b  *)
(* are the numbers its two captures denote, for a word a names the word.   *)
(***************************************************************************)
Tok(k, a, b) == [k |-> k, a |-> a, b |-> b]
NL == Tok("nl", 0, 0)           \* a newline
SP == Tok("sp", 0, 0)           \* a blank
PUNCT == Tok("punct", 0, 0)     \* one of . ! ?
STAR == Tok("star", 0, 0)       \* *
DASH == Tok("dash", 0, 0)       \* -
Word(w) == Tok("word", w, 0)    \* a run of letters
\* an annotation "lat: a, lng: b" in parentheses, both numbers well-formed decimals
Ann(a, b) == Tok("ann", a, b)
\* looks like an annotation, but a capture is no decimal number (lat: abc)
BadAnn == Tok("badann", 0, 0)

UnknownLocation == <<Word(0)>>
NoLocationsText == <<Word(1)>>

IsSpace(t) == t.k \in {"sp", "nl"}
IsDot(t) == t.k # "nl"          \* the regex "." : any character but a line end

(***************************************************************************)
(* parseCoordinatesFromText: the regular expression, which is in sequence  *)
(*   prefix   : start of text, or a newline, or one of . ! ? and blanks    *)
(*   stars    : an optional pair of asterisks (greedy)                     *)
(*   group 1  : any characters but line ends, as few as possible           *)
(*   stars    : an optional pair of asterisks (greedy)                     *)
(*   filler   : any characters but line ends, as few as possible           *)
(*   annotation with its two numeric captures (groups 2 and 4)             *)
(* matched the way a backtracking engine does.  Positions are 0..Len(t):   *)
(* position p stands before token p+1.                                     *)
(***************************************************************************)
\* all tokens p+1..q are matched by "."
AllDot(t, p, q) == \A i \in (p + 1)..q : IsDot(t[i])

\* the positions after the prefix tried at start s, in order
PrefixEnds(t, s) ==
    (IF s = 0 THEN <<0>> ELSE <<>>)
    \o (IF s < Len(t) /\ t[s + 1].k = "nl" THEN <<s + 1>> ELSE <<>>)
    \o (IF s < Len(t) /\ t[s + 1].k = "punct"
        THEN LET run == {q \in (s + 2)..Len(t) : \A i \in (s + 2)..q : IsSpace(t[i])}
             IN  IF run = {} THEN <<>>
                 ELSE RangeDown(CHOOSE q \in run : \A r \in run : r <= q, s + 2)
        ELSE <<>>)

\* the positions after the greedy optional pair of asterisks tried at p, in order
StarEnds(t, p) ==
    IF p + 2 <= Len(t) /\ t[p + 1].k = "star" /\ t[p + 2].k = "star"
    THEN <<p + 2, p>> ELSE <<p>>

\* the positions after a lazy run of any characters tried at p, in order
LazyEnds(t, p) ==
    LET ends == {q \in p..Len(t) : AllDot(t, p, q)}
    IN  Range(p, CHOOSE q \in ends : \A r \in ends : r <= q)

\* a sub-pattern that takes any parenthesis with lat: and lng: for an annotation
AnnLikeAt(t, p) == p < Len(t) /\ t[p + 1].k \in {"ann", "badann"}

\* the annotation sub-pattern matches at p
AnnAt(t, p) == p < Len(t) /\ t[p + 1].k = "ann"

\* every way to match after the prefix ended at j, in the engine's order:
\* <<start of group 1, end of group 1, position of the annotation>>
RECURSIVE Flatten(_)
Flatten(ss) == IF ss = <<>> THEN <<>> ELSE ss[1] \o Flatten(Tail(ss))

BodyCands(t, j) ==
    Flatten([x \in 1..Len(StarEnds(t, j)) |->
      LET o1 == StarEnds(t, j)[x] IN
      Flatten([y \in 1..Len(LazyEnds(t, o1)) |->
        LET g == LazyEnds(t, o1)[y] IN
        Flatten([z \in 1..Len(StarEnds(t, g)) |->
          LET o2 == StarEnds(t, g)[z] IN
          [w \in 1..Len(LazyEnds(t, o2)) |-> <<o1, g, LazyEnds(t, o2)[w]>>]])])])

MatchOk(t, c) == AnnAt(t, c[3])

\* the first way to continue that ends before an annotation, <<>> if none
FirstBody(t, cands) == FirstThat(cands, [i \in 1..Len(cands) |-> MatchOk(t, cands[i])])

\* the match whose prefix ends at j, <<>> if none
BodyAt(t, j) == FirstBody(t, BodyCands(t, j))

\* the first prefix end, among js, that a match continues from, <<>> if none
FirstPrefix(t, js) == FirstThat(js, [i \in 1..Len(js) |-> BodyAt(t, js[i]) # <<>>])

\* the match starting exactly at s, <<>> if none
MatchAt(t, s) ==
    LET j1 == FirstPrefix(t, PrefixEnds(t, s))
    IN  IF j1 = <<>> THEN <<>> ELSE BodyAt(t, j1[1])

\* the first start, among starts, that a match begins at, <<>> if none
FirstStart(t, starts) ==
    FirstThat(starts, [i \in 1..Len(starts) |-> MatchAt(t, starts[i]) # <<>>])

\* regex.exec from lastIndex: the leftmost start that matches.
\* [g1 |-> match[1], lat |-> match[2], lng |-> match[4], last |-> lastIndex]
RegexExec(t, lastIndex) ==
    LET s1 == FirstStart(t, Range(lastIndex, Len(t)))
    IN  IF s1 = <<>> THEN <<>>
        ELSE LET c == MatchAt(t, s1[1])[1]
             IN  <<[g1 |-> SubSeq(t, c[1] + 1, c[2]),
                    lat |-> t[c[3] + 1].a, lng |-> t[c[3] + 1].b,
                    last |-> c[3] + 1]>>

\* String.prototype.trim
RECURSIVE TrimLeft(_)
TrimLeft(s) == IF s # <<>> /\ IsSpace(s[1]) THEN TrimLeft(Tail(s)) ELSE s

RECURSIVE TrimRight(_)
TrimRight(s) ==
    IF s # <<>> /\ IsSpace(s[Len(s)]) THEN TrimRight(SubSeq(s, 1, Len(s) - 1)) ELSE s

Trim(s) == TrimRight(TrimLeft(s))

\* replace: a leading asterisk or hyphen and the blanks after it are removed
StripBullet(s) ==
    IF s # <<>> /\ s[1].k \in {"star", "dash"} THEN TrimLeft(Tail(s)) ELSE s

\* replace: every asterisk is removed
StripStars(s) == SelectSeq(s, LAMBDA t : t.k # "star")

\* split at . ! ? and pop: the text after the last of them
RECURSIVE LastSegment(_)
LastSegment(s) ==
    IF \E i \in 1..Len(s) : s[i].k = "punct"
    THEN LastSegment(Tail(s))
    ELSE s

CleanName(g1) ==
    LET n == Trim(LastSegment(StripStars(StripBullet(Trim(g1)))))
    IN  IF n = <<>> THEN UnknownLocation ELSE n

isNaN(x) == x = NaN

\* an extractor that puts each new place in front of those found before
RECURSIVE ParseFromReversed(_, _, _)
ParseFromReversed(t, lastIndex, idBase) ==
    LET m == RegexExec(t, lastIndex)
    IN  IF m = <<>> THEN <<>>
        ELSE IF ~isNaN(m[1].lat) /\ ~isNaN(m[1].lng)
             THEN ParseFromReversed(t, m[1].last, idBase + 1)
                  \o <<[id |-> idBase + 1, name |-> CleanName(m[1].g1),
                        coordinate |-> [lat |-> m[1].lat, lng |-> m[1].lng]]>>
             ELSE ParseFromReversed(t, m[1].last, idBase)

\* the places pushed from lastIndex on; ids are idBase + 1, idBase + 2, ...
RECURSIVE ParseFrom(_, _, _)
ParseFrom(t, lastIndex, idBase) ==
    LET m == RegexExec(t, lastIndex)
    IN  IF m = <<>> THEN <<>>
        ELSE IF ~isNaN(m[1].lat) /\ ~isNaN(m[1].lng)
             THEN <<[id |-> idBase + 1, name |-> CleanName(m[1].g1),
                     coordinate |-> [lat |-> m[1].lat, lng |-> m[1].lng]]>>
                  \o ParseFrom(t, m[1].last, idBase + 1)
             ELSE ParseFrom(t, m[1].last, idBase)

\* an extractor whose pattern object outlives the call: a run after the first
\* resumes where the scan of the run before it stood
parseCoordinatesResuming(t, idBase) == ParseFrom(t, IF idBase > 10 THEN Len(t) - 1 ELSE 0, idBase)

parseCoordinatesFromText(t, idBase) == ParseFrom(t, 0, idBase)


(***************************************************************************)
(* sendMessageToGemini: what a resolved transport call returns.            *)
(***************************************************************************)
Chunk(web, id) == [web |-> web, id |-> id]

\* a response that cites every grounding chunk, web or not
sendMessageAllChunks(raw, idBase) ==
    LET text == IF raw.text = <<>> THEN NoLocationsText ELSE raw.text
    IN  [text |-> text,
         places |-> parseCoordinatesFromText(text, idBase),
         sources |-> [i \in 1..Len(raw.chunks) |-> raw.chunks[i].id]]

\* the response assembled from the transport's raw text and grounding chunks
sendMessageToGemini(raw, idBase) ==
    LET text == IF raw.text = <<>> THEN NoLocationsText ELSE raw.text
        webs == SelectSeq(raw.chunks, LAMBDA c : c.web)
    IN  [text |-> text,
         places |-> parseCoordinatesFromText(text, idBase),
         sources |-> [i \in 1..Len(webs) |-> webs[i].id]]

(***************************************************************************)
(* The inputs the environment can supply.                                  *)
(***************************************************************************)
CentralPark == [lat |-> 407829, lng |-> -739654]
TimesSquare == [lat |-> 407580, lng |-> -739855]
OffRange == [lat |-> 9990000, lng |-> -739000]
DeviceLoc == [lat |-> 377749, lng |-> -1224194]
NearCentralPark == [lat |-> 407829, lng |-> -739653]

\* one annotated place with a description
RawOne ==
    [text |-> <<STAR, STAR, Word(2), STAR, STAR, SP,
                Ann(CentralPark.lat, CentralPark.lng), SP, DASH, SP, Word(3), PUNCT>>,
     chunks |-> <<Chunk(TRUE, 1)>>]
\* two places in range and one with lat: 999, one per line
RawThree ==
    [text |-> <<STAR, STAR, Word(2), STAR, STAR, SP,
                Ann(CentralPark.lat, CentralPark.lng), NL,
                Word(4), SP, Ann(OffRange.lat, OffRange.lng), NL,
                Word(5), SP, Ann(TimesSquare.lat, TimesSquare.lng)>>,
     chunks |-> <<Chunk(FALSE, 2), Chunk(TRUE, 3)>>]
\* no text at all
RawEmpty == [text |-> <<>>, chunks |-> <<>>]

RawResponses == <<RawOne, RawThree, RawEmpty>>

\* what the call of query n returns when the transport answers RawResponses[r]
ResponseTable ==
    [n \in 1..(MaxQueries + 1), r \in 1..Len(RawResponses) |->
        sendMessageToGemini(RawResponses[r], 10 * n)]

\* the response texts: every text of up to MaxTextLen characters, a reply that
\* praises a place before its annotation and describes it after, and a reply of
\* two sentences and a second line that mentions the first place again
AnnA == Ann(CentralPark.lat, CentralPark.lng)
AnnB == Ann(TimesSquare.lat, TimesSquare.lng)
Alphabet == {NL, SP, PUNCT, STAR, Word(2), AnnA, AnnB, BadAnn}
ExampleText ==
    <<STAR, STAR, Word(2), STAR, STAR, SP, Word(9), SP, AnnA, SP, DASH, SP, Word(3), PUNCT>>
SentencesText ==
    <<Word(2), SP, AnnA, PUNCT, SP, Word(4), SP, AnnB, NL, Word(2), SP, AnnA>>
\* "Try this spot (lat: abc, lng: -73.9)."
NotNumberText == <<Word(2), SP, BadAnn, PUNCT>>
\* two places of one name on one parallel, each annotation on a line of its own
TwinsText == <<Word(2), SP, AnnA, NL, Word(2), SP, Ann(CentralPark.lat, TimesSquare.lng)>>
Texts ==
    UNION {[1..n -> Alphabet] : n \in 0..MaxTextLen}
        \cup {ExampleText, SentencesText, NotNumberText, TwinsText}

GestureCenters == {NearCentralPark, DeviceLoc}
GestureZooms == {2, 16}

ApologyText == <<Word(6)>>
DeviceLocationName == <<Word(7)>>
DeviceSummary == <<STAR, STAR, Word(7), STAR, STAR, NL, NL, Word(8)>>
DevicePlaceId == 900

(***************************************************************************)
(* The state.                                                              *)
(***************************************************************************)
VARIABLES
    places, summary, sources, isLoading, userLocation,   \* App state
    mapCenter, mapZoom, selectedPlaceId,
    previousViewState,       \* <<>> or <<[center, zoom]>>
    searchResultsBackup,     \* <<>> or <<[places, summary, sources]>>
    showDatabase, savedPlaces, storage,                  \* SearchOverlay, localStorage
    isLocating,              \* <<>> or <<the viewport the pending callback closes over>>
    inflight,                \* the sequence numbers of the transport calls in flight
    nextSeq,                 \* the number of queries submitted so far, plus one
    geoPending,              \* the mount-time geolocation request is outstanding
    mapView,                 \* Leaflet: [center, zoom] of the map
    prevPlacesRef,           \* MapUpdater: the identity of the array last reconciled
    pendingMoveEnd,          \* Leaflet owes a moveend for a programmatic move
    lastCmds,                \* the map commands the last step's effect runs emitted
    lastOp,                  \* the handler that ran last
    respOf,                  \* history: what each query's call resolved to
    fitsForSet,              \* history: fit-bounds emitted since places was last set
    viewAtQuery,             \* history: the viewport at the latest query submission
    viewAtSnap,              \* history: the viewport at the latest snapshot cause
    publishedBefore,         \* history: places and sources before the latest query
    dbMessage,               \* SearchOverlay: <<>> or <<the notice on display>>
    dbTimer,                 \* the pending timers that will clear the notice
    openedOver,              \* history: the result the saved-places view was opened over
    sentLocation,            \* history: the location bias sent with the latest query
    popup                    \* PlacePopup: <<>> or <<the open popup's place and isSaved>>

appVars == <<places, summary, sources, isLoading, userLocation, mapCenter, mapZoom,
             selectedPlaceId, previousViewState, searchResultsBackup>>
overlayVars == <<showDatabase, savedPlaces, storage, isLocating>>
netVars == <<inflight, nextSeq, geoPending>>
mapVars == <<mapView, prevPlacesRef, pendingMoveEnd>>
histVars == <<lastCmds, lastOp, respOf, fitsForSet, viewAtQuery, viewAtSnap,
              publishedBefore>>
noticeVars == <<dbMessage, dbTimer>>
vars == <<appVars, overlayVars, netVars, mapVars, histVars, noticeVars, openedOver,
          sentLocation, popup>>

(***************************************************************************)
(* MapComponent and MapUpdater.                                            *)
(***************************************************************************)
isValidLatLng(lat, lng) == ~isNaN(lat) /\ ~isNaN(lng)

\* the spec's Coordinate invariant, which the code checks nowhere
InRange(c) ==
    /\ ~isNaN(c.lat) /\ ~isNaN(c.lng)
    /\ -900000 <= c.lat /\ c.lat <= 900000
    /\ -1800000 <= c.lng /\ c.lng <= 1800000

safeCenter(center) ==
    IF isValidLatLng(center.lat, center.lng) THEN center
    ELSE [lat |-> 407128, lng |-> -740060]

safePlaces(ps) == SelectSeq(ps, LAMBDA p : isValidLatLng(p.coordinate.lat, p.coordinate.lng))

\* L.latLngBounds over the coordinates: the smallest enclosing rectangle
latLngBounds(ps) ==
    [south |-> MinOf([i \in 1..Len(ps) |-> ps[i].coordinate.lat]),
     north |-> MaxOf([i \in 1..Len(ps) |-> ps[i].coordinate.lat]),
     west |-> MinOf([i \in 1..Len(ps) |-> ps[i].coordinate.lng]),
     east |-> MaxOf([i \in 1..Len(ps) |-> ps[i].coordinate.lng])]

\* Leaflet's getBoundsZoom: the widest zoom showing the padded rectangle, which
\* falls as the rectangle grows; a single point fits at the map's maximum zoom
BoundsZoom(b) ==
    LET span == Max(b.north - b.south, b.east - b.west)
    IN  IF span = 0 THEN MapMaxZoom
        ELSE IF span <= 10 THEN 17
        ELSE IF span <= 1000 THEN 14
        ELSE 2

\* the view map.fitBounds(bounds, {padding, maxZoom}) ends at
FitView(b, maxZoom) ==
    [center |-> [lat |-> (b.south + b.north) \div 2, lng |-> (b.west + b.east) \div 2],
     zoom |-> Min(maxZoom, BoundsZoom(b))]

NoCmd == [kind |-> "none"]
FitCmd(b) == [kind |-> "fit", bounds |-> b, padding |-> FitPadding, maxZoom |-> FitMaxZoom]
FlyCmd(c, z) == [kind |-> "fly", center |-> c, zoom |-> z]

\* a fresh array is identical to no array made before it
FreshRef(prev) == IF prev = 1 THEN 2 ELSE 1

Abs(x) == IF x < 0 THEN -x ELSE x

\* the straight-line distance of a and b, sqrt(dlat^2 + dlng^2), exceeds eps ticks
\* (a leg longer than eps decides it, which keeps the squares small)
DistExceeds(a, b, eps) ==
    LET dlat == Abs(a.lat - b.lat)
        dlng == Abs(a.lng - b.lng)
    IN  \/ dlat > eps
        \/ dlng > eps
        \/ dlat * dlat + dlng * dlng > eps * eps

\* the comparison of branch 1 turned round: the places kept their identity
PlacesAreSame(ps, ref, prev) == ref = prev /\ Len(ps) > 0

\* the places changed and there are some: branch 1 of the effect
PlacesAreNew(ps, ref, prev) == ref # prev /\ Len(ps) > 0

\* branch 2 without its comparison of the zooms
CenterMoved(view, center, zoom) == DistExceeds(view.center, center, EpsTicks)

\* a move is required: branch 2 of the effect
MoveRequired(view, center, zoom) ==
    DistExceeds(view.center, center, EpsTicks) \/ view.zoom # zoom

\* one run of MapUpdater's effect with props (center, zoom, ps), ps being the array
\* of identity ref: the command emitted, the map's view after it, and the ref kept
MapUpdater(center, zoom, ps, ref, prev, view) ==
    IF ~isValidLatLng(center.lat, center.lng)
    THEN [cmd |-> NoCmd, view |-> view, prev |-> prev]
    ELSE IF PlacesAreNew(ps, ref, prev)
    THEN LET validPlaces ==
                 SelectSeq(ps, LAMBDA p : isValidLatLng(p.coordinate.lat, p.coordinate.lng))
         IN  IF Len(validPlaces) > 0
             THEN [cmd |-> FitCmd(latLngBounds(validPlaces)),
                   view |-> FitView(latLngBounds(validPlaces), FitMaxZoom),
                   prev |-> ref]
             ELSE [cmd |-> NoCmd, view |-> view, prev |-> ref]
    ELSE IF ~isValidLatLng(view.center.lat, view.center.lng)
    THEN [cmd |-> NoCmd, view |-> view, prev |-> prev]
    ELSE IF MoveRequired(view, center, zoom)
    THEN [cmd |-> FlyCmd(center, zoom), view |-> [center |-> center, zoom |-> zoom],
          prev |-> prev]
    ELSE [cmd |-> NoCmd, view |-> view, prev |-> prev]

\* MapComponent renders with App's (center, zoom, ps) and MapUpdater's effect runs
RenderFrom(center, zoom, ps, prev, view) ==
    MapUpdater(safeCenter(center), zoom, safePlaces(ps), FreshRef(prev), prev, view)

FitCount(cmds) == Cardinality({i \in 1..Len(cmds) : cmds[i].kind = "fit"})

\* the step re-renders once with the new state; view: the map's view when the
\* effect runs, pend: a moveend is still owed, newSet: the step called setPlaces
Render(center, zoom, ps, view, pend, newSet) ==
    \E r \in {RenderFrom(center, zoom, ps, prevPlacesRef, view)} :
        /\ mapView' = r.view
        /\ prevPlacesRef' = r.prev
        /\ lastCmds' = <<r.cmd>>
        /\ pendingMoveEnd' = (pend \/ r.cmd.kind # "none")
        /\ fitsForSet' = Min((IF newSet THEN 0 ELSE fitsForSet) + FitCount(<<r.cmd>>), FitCap)

\* the step re-renders, the showDatabase effect sets state again, and it re-renders
RenderTwice(c1, z1, ps1, c2, z2, ps2) ==
    \E r1 \in {RenderFrom(c1, z1, ps1, prevPlacesRef, mapView)} :
      \E r2 \in {RenderFrom(c2, z2, ps2, r1.prev, r1.view)} :
        /\ mapView' = r2.view
        /\ prevPlacesRef' = r2.prev
        /\ lastCmds' = <<r1.cmd, r2.cmd>>
        /\ pendingMoveEnd' = (pendingMoveEnd \/ r1.cmd.kind # "none" \/ r2.cmd.kind # "none")
        /\ fitsForSet' = Min(FitCount(<<r2.cmd>>), FitCap)

\* no state changed: React bails out, nothing renders
NoRender ==
    /\ lastCmds' = <<>>
    /\ UNCHANGED <<mapVars, fitsForSet>>


(***************************************************************************)
(* The initial state: App and SearchOverlay mounted, the map at the        *)
(* default view, the mount-time geolocation request outstanding.           *)
(***************************************************************************)
Op(name, seq) == [op |-> name, seq |-> seq]
\* the viewport the session starts with, whatever it is now
DefaultViewport == [center |-> DEFAULT_CENTER, zoom |-> DEFAULT_ZOOM]

Viewport == [center |-> mapCenter, zoom |-> mapZoom]

Init ==
    /\ places = <<>> /\ summary = <<>> /\ sources = <<>>
    /\ isLoading = FALSE
    /\ userLocation = <<>>
    /\ mapCenter = DEFAULT_CENTER /\ mapZoom = DEFAULT_ZOOM
    /\ selectedPlaceId = <<>>
    /\ previousViewState = <<>>
    /\ searchResultsBackup = <<>>
    /\ showDatabase = FALSE /\ savedPlaces = <<>> /\ storage = <<>>
    /\ isLocating = <<>>
    /\ inflight = {} /\ nextSeq = 1 /\ geoPending = TRUE
    /\ mapView = [center |-> DEFAULT_CENTER, zoom |-> DEFAULT_ZOOM]
    /\ prevPlacesRef = 0
    /\ pendingMoveEnd = FALSE
    /\ lastCmds = <<NoCmd>>
    /\ lastOp = Op("mount", 0)
    /\ respOf = [n \in 1..MaxQueries |-> 0]
    /\ fitsForSet = 0
    /\ viewAtQuery = <<>> /\ viewAtSnap = <<>>
    /\ publishedBefore = [places |-> <<>>, sources |-> <<>>]
    /\ dbMessage = <<>> /\ dbTimer = 0
    /\ openedOver = <<>>
    /\ sentLocation = <<>>
    /\ popup = <<>>

(***************************************************************************)
(* App: the mount-time geolocation effect.                                 *)
(***************************************************************************)
GeoSuccess ==
    /\ geoPending
    /\ geoPending' = FALSE
    /\ userLocation' = <<DeviceLoc>>
    /\ mapCenter' = DeviceLoc
    /\ Render(DeviceLoc, mapZoom, places, mapView, pendingMoveEnd, FALSE)
    /\ lastOp' = Op("geo", 0)
    /\ UNCHANGED <<places, summary, sources, isLoading, mapZoom, selectedPlaceId,
                   previousViewState, searchResultsBackup, overlayVars, inflight,
                   nextSeq, respOf, viewAtQuery, viewAtSnap, publishedBefore, sentLocation, popup, noticeVars, openedOver>>

GeoError ==
    /\ geoPending
    /\ geoPending' = FALSE
    /\ NoRender
    /\ lastOp' = Op("geoError", 0)
    /\ UNCHANGED <<appVars, overlayVars, inflight, nextSeq, respOf, viewAtQuery,
                   viewAtSnap, publishedBefore, sentLocation, popup, noticeVars, openedOver>>

(***************************************************************************)
(* App.handleSearch up to its await, called by handleSubmit or by           *)
(* handleSuggestionClick, which then close the saved-places view.          *)
(***************************************************************************)
handleSearch ==
    /\ nextSeq <= MaxQueries
    /\ previousViewState' = <<Viewport>>
    /\ searchResultsBackup' = <<>>
    /\ isLoading' = TRUE
    /\ summary' = <<>> /\ places' = <<>> /\ sources' = <<>>
    /\ selectedPlaceId' = <<>>
    /\ inflight' = inflight \cup {nextSeq}
    /\ nextSeq' = nextSeq + 1
    /\ showDatabase' = FALSE
    /\ IF showDatabase
       THEN RenderTwice(mapCenter, mapZoom, <<>>, mapCenter, mapZoom, <<>>)
       ELSE Render(mapCenter, mapZoom, <<>>, mapView, pendingMoveEnd, TRUE)
    /\ respOf' = [respOf EXCEPT ![nextSeq] = -1]
    /\ viewAtQuery' = <<Viewport>>
    /\ viewAtSnap' = <<Viewport>>
    /\ publishedBefore' = [places |-> places, sources |-> sources]
    /\ sentLocation' = userLocation
    /\ popup' = <<>>
    /\ UNCHANGED <<userLocation, mapCenter, mapZoom, savedPlaces, storage, isLocating,
                   geoPending, noticeVars, openedOver>>

\* the form: refused while a query is loading
handleSubmit ==
    /\ ~isLoading
    /\ handleSearch
    /\ lastOp' = Op("submit", nextSeq)

\* the form while a query is loading: handleSubmit returns at once
handleSubmitRefused ==
    /\ isLoading
    /\ NoRender
    /\ lastOp' = Op("submitRefused", 0)
    /\ UNCHANGED <<appVars, overlayVars, netVars, respOf, viewAtQuery, viewAtSnap,
                   publishedBefore, sentLocation, popup, noticeVars, openedOver>>

\* a popular suggestion: searches whatever isLoading is
handleSuggestionClick ==
    /\ handleSearch
    /\ lastOp' = Op("suggestion", nextSeq)

(***************************************************************************)
(* App.handleSearch after its await: the call of query n resolves.         *)
(***************************************************************************)
SearchResolved(n, r) ==
    LET response == ResponseTable[n, r]
    IN  /\ n \in inflight
        /\ inflight' = inflight \ {n}
        /\ summary' = response.text
        /\ places' = response.places
        /\ sources' = response.sources
        /\ isLoading' = FALSE
        /\ Render(mapCenter, mapZoom, response.places, mapView, pendingMoveEnd, TRUE)
        /\ lastOp' = Op("resolved", n)
        /\ respOf' = [respOf EXCEPT ![n] = r]
        /\ popup' = <<>>
        /\ UNCHANGED <<userLocation, mapCenter, mapZoom, selectedPlaceId,
                       previousViewState, searchResultsBackup, overlayVars, nextSeq,
                       geoPending, viewAtQuery, viewAtSnap, publishedBefore, sentLocation, noticeVars, openedOver>>

\* a failure handler without the finally block: the busy flag stays set
SearchFailedStaysBusy(n) ==
    /\ n \in inflight
    /\ inflight' = inflight \ {n}
    /\ summary' = ApologyText
    /\ Render(mapCenter, mapZoom, places, mapView, pendingMoveEnd, FALSE)
    /\ lastOp' = Op("failed", n)
    /\ respOf' = [respOf EXCEPT ![n] = -2]
    /\ UNCHANGED <<places, sources, isLoading, userLocation, mapCenter, mapZoom,
                   selectedPlaceId, previousViewState, searchResultsBackup, overlayVars,
                   nextSeq, geoPending, viewAtQuery, viewAtSnap, publishedBefore,
                   sentLocation, popup, noticeVars, openedOver>>

\* a failure handler that also puts the snapshot's viewport back
SearchFailedRestores(n) ==
    /\ n \in inflight
    /\ inflight' = inflight \ {n}
    /\ summary' = ApologyText
    /\ isLoading' = FALSE
    /\ mapCenter' = previousViewState[1].center
    /\ mapZoom' = previousViewState[1].zoom
    /\ Render(previousViewState[1].center, previousViewState[1].zoom, places, mapView,
              pendingMoveEnd, FALSE)
    /\ lastOp' = Op("failed", n)
    /\ respOf' = [respOf EXCEPT ![n] = -2]
    /\ UNCHANGED <<places, sources, userLocation, selectedPlaceId,
                   previousViewState, searchResultsBackup, overlayVars, nextSeq,
                   geoPending, viewAtQuery, viewAtSnap, publishedBefore, sentLocation, popup, noticeVars, openedOver>>

\* the call of query n resolves with the text t and no grounding chunk
TextResolved(n, t) ==
    \E response \in {sendMessageToGemini([text |-> t, chunks |-> <<>>], 10 * n)} :
        /\ n \in inflight
        /\ inflight' = inflight \ {n}
        /\ summary' = response.text
        /\ places' = response.places
        /\ sources' = response.sources
        /\ isLoading' = FALSE
        /\ Render(mapCenter, mapZoom, response.places, mapView, pendingMoveEnd, TRUE)
        /\ lastOp' = Op("resolvedText", n)
        /\ respOf' = [respOf EXCEPT ![n] = -3]
        /\ popup' = <<>>
        /\ UNCHANGED <<userLocation, mapCenter, mapZoom, selectedPlaceId,
                       previousViewState, searchResultsBackup, overlayVars, nextSeq,
                       geoPending, viewAtQuery, viewAtSnap, publishedBefore, sentLocation, noticeVars, openedOver>>

SearchFailed(n) ==
    /\ n \in inflight
    /\ inflight' = inflight \ {n}
    /\ summary' = ApologyText
    /\ isLoading' = FALSE
    /\ Render(mapCenter, mapZoom, places, mapView, pendingMoveEnd, FALSE)
    /\ lastOp' = Op("failed", n)
    /\ respOf' = [respOf EXCEPT ![n] = -2]
    /\ UNCHANGED <<places, sources, userLocation, mapCenter, mapZoom, selectedPlaceId,
                   previousViewState, searchResultsBackup, overlayVars, nextSeq,
                   geoPending, viewAtQuery, viewAtSnap, publishedBefore, sentLocation, popup, noticeVars, openedOver>>

(***************************************************************************)
(* App.handleClear, from the results card.                                 *)
(***************************************************************************)
\* a clear that restores no center
KeepCenter == mapCenter

ClearCenter == IF previousViewState # <<>> THEN previousViewState[1].center ELSE mapCenter
ClearZoom == IF previousViewState # <<>> THEN previousViewState[1].zoom ELSE mapZoom

handleClear ==
    /\ summary # <<>> /\ ~showDatabase
    /\ places' = <<>> /\ summary' = <<>> /\ sources' = <<>>
    /\ selectedPlaceId' = <<>>
    /\ searchResultsBackup' = <<>>
    /\ mapCenter' = ClearCenter
    /\ mapZoom' = ClearZoom
    /\ Render(ClearCenter, ClearZoom, <<>>, mapView, pendingMoveEnd, TRUE)
    /\ lastOp' = Op("clear", 0)
    /\ popup' = <<>>
    /\ UNCHANGED <<isLoading, userLocation, previousViewState, overlayVars, netVars,
                   respOf, viewAtQuery, viewAtSnap, publishedBefore, sentLocation, noticeVars, openedOver>>

(***************************************************************************)
(* App.handlePlaceClick, from a marker or the result list.                 *)
(***************************************************************************)
handlePlaceClick(place) ==
    /\ mapCenter' = place.coordinate
    /\ mapZoom' = SelectZoom
    /\ selectedPlaceId' = <<place.id>>
    /\ IF mapCenter # place.coordinate \/ mapZoom # SelectZoom
          \/ selectedPlaceId # <<place.id>>
       THEN Render(place.coordinate, SelectZoom, places, mapView, pendingMoveEnd, FALSE)
       ELSE NoRender
    /\ lastOp' = Op("placeClick", 0)
    /\ UNCHANGED <<places, summary, sources, isLoading, userLocation, previousViewState,
                   searchResultsBackup, overlayVars, netVars, respOf, viewAtQuery,
                   viewAtSnap, publishedBefore, sentLocation, popup, noticeVars, openedOver>>

PlaceClicked == \E i \in 1..Len(places) : handlePlaceClick(places[i])

(***************************************************************************)
(* SearchOverlay.handleCurrentLocationClick and its position callbacks;    *)
(* the callback calls the handleAddPlace of the render the click saw.      *)
(***************************************************************************)
handleCurrentLocationClick ==
    /\ isLocating = <<>>
    /\ isLocating' = <<Viewport>>
    /\ NoRender
    /\ lastOp' = Op("locate", 0)
    /\ UNCHANGED <<appVars, showDatabase, savedPlaces, storage, netVars, respOf,
                   viewAtQuery, viewAtSnap, publishedBefore, sentLocation, popup, noticeVars, openedOver>>

DevicePlace == [id |-> DevicePlaceId, name |-> DeviceLocationName, coordinate |-> DeviceLoc]

handleAddPlace(place, closure) ==
    /\ previousViewState' = <<closure>>
    /\ searchResultsBackup' = <<>>
    /\ userLocation' = <<place.coordinate>>
    /\ mapCenter' = place.coordinate
    /\ mapZoom' = SelectZoom
    /\ selectedPlaceId' = <<place.id>>
    /\ showDatabase' = FALSE
    /\ IF showDatabase
       THEN /\ places' = <<>> /\ summary' = <<>> /\ sources' = <<>>
            /\ RenderTwice(place.coordinate, SelectZoom, <<place>>,
                           place.coordinate, SelectZoom, <<>>)
       ELSE /\ places' = <<place>> /\ summary' = DeviceSummary /\ sources' = <<>>
            /\ Render(place.coordinate, SelectZoom, <<place>>, mapView, pendingMoveEnd, TRUE)

LocateSuccess ==
    /\ isLocating # <<>>
    /\ isLocating' = <<>>
    /\ handleAddPlace(DevicePlace, isLocating[1])
    /\ lastOp' = Op("addPlace", 0)
    /\ viewAtSnap' = <<isLocating[1]>>
    /\ popup' = <<>>
    /\ UNCHANGED <<isLoading, savedPlaces, storage, netVars, respOf, viewAtQuery,
                   publishedBefore, sentLocation, noticeVars, openedOver>>

LocateError ==
    /\ isLocating # <<>>
    /\ isLocating' = <<>>
    /\ NoRender
    /\ lastOp' = Op("locateError", 0)
    /\ UNCHANGED <<appVars, showDatabase, savedPlaces, storage, netVars, respOf,
                   viewAtQuery, viewAtSnap, publishedBefore, sentLocation, popup, noticeVars, openedOver>>

(***************************************************************************)
(* App.handleMapMove, fed by MapEvents from moveend and zoomend.           *)
(***************************************************************************)
\* a report handler that keeps the stored user location
handleMapMoveKeepingLocation(newCenter, newZoom, view, pend) ==
    /\ mapCenter' = newCenter
    /\ mapZoom' = newZoom
    /\ Render(newCenter, newZoom, places, view, pend, FALSE)
    /\ UNCHANGED <<places, summary, sources, isLoading, userLocation, selectedPlaceId,
                   previousViewState, searchResultsBackup, overlayVars, netVars, respOf,
                   viewAtQuery, viewAtSnap, publishedBefore, sentLocation, popup, noticeVars,
                   openedOver>>

handleMapMove(newCenter, newZoom, view, pend) ==
    /\ userLocation' = <<newCenter>>
    /\ mapCenter' = newCenter
    /\ mapZoom' = newZoom
    /\ Render(newCenter, newZoom, places, view, pend, FALSE)
    /\ UNCHANGED <<places, summary, sources, isLoading, selectedPlaceId,
                   previousViewState, searchResultsBackup, overlayVars, netVars, respOf,
                   viewAtQuery, viewAtSnap, publishedBefore, sentLocation, popup, noticeVars, openedOver>>

\* the user drags or zooms the map to (c, z) and the gesture ends
MapGesture(c, z) ==
    /\ handleMapMove(c, z, [center |-> c, zoom |-> z], pendingMoveEnd)
    /\ lastOp' = Op("gesture", 0)

\* a programmatic move ends
MoveEnd ==
    /\ pendingMoveEnd
    /\ isValidLatLng(mapView.center.lat, mapView.center.lng)
    /\ handleMapMove(mapView.center, mapView.zoom, mapView, FALSE)
    /\ lastOp' = Op("moveend", 0)

(***************************************************************************)
(* App.handleZoomIn and handleZoomOut.                                     *)
(***************************************************************************)
SetZoom(z) ==
    /\ mapZoom' = z
    /\ IF z # mapZoom
       THEN Render(mapCenter, z, places, mapView, pendingMoveEnd, FALSE)
       ELSE NoRender
    /\ UNCHANGED <<places, summary, sources, isLoading, userLocation, mapCenter,
                   selectedPlaceId, previousViewState, searchResultsBackup, overlayVars,
                   netVars, respOf, viewAtQuery, viewAtSnap, publishedBefore, sentLocation, popup, noticeVars, openedOver>>

handleZoomIn ==
    /\ SetZoom(Min(mapZoom + 1, ZoomButtonMax))
    /\ lastOp' = Op("zoomIn", 0)

\* a zoom-out button without its lower limit
handleZoomOutUnbounded ==
    /\ SetZoom(mapZoom - 1)
    /\ lastOp' = Op("zoomOut", 0)

handleZoomOut ==
    /\ SetZoom(Max(mapZoom - 1, ZoomButtonMin))
    /\ lastOp' = Op("zoomOut", 0)

(***************************************************************************)
(* The saved-places view: the toggle button, the showDatabase effect and   *)
(* App.handleDatabaseViewChange; save-all from the results card.           *)
(***************************************************************************)
OpenDatabase ==
    /\ ~showDatabase
    /\ showDatabase' = TRUE
    /\ savedPlaces' = storage
    /\ searchResultsBackup' =
         IF searchResultsBackup = <<>>
         THEN <<[places |-> places, summary |-> summary, sources |-> sources]>>
         ELSE searchResultsBackup
    /\ places' = storage
    /\ Render(mapCenter, mapZoom, storage, mapView, pendingMoveEnd, TRUE)
    /\ lastOp' = Op("dbOpen", 0)
    /\ openedOver' = <<[places |-> places, summary |-> summary, sources |-> sources]>>
    /\ popup' = <<>>
    /\ UNCHANGED <<summary, sources, isLoading, userLocation, mapCenter, mapZoom,
                   selectedPlaceId, previousViewState, storage, isLocating, netVars,
                   respOf, viewAtQuery, viewAtSnap, publishedBefore, sentLocation, noticeVars>>

RestoredPlaces == IF searchResultsBackup # <<>> THEN searchResultsBackup[1].places ELSE <<>>
RestoredSummary == IF searchResultsBackup # <<>> THEN searchResultsBackup[1].summary ELSE <<>>
RestoredSources == IF searchResultsBackup # <<>> THEN searchResultsBackup[1].sources ELSE <<>>

CloseDatabase ==
    /\ showDatabase
    /\ showDatabase' = FALSE
    /\ places' = RestoredPlaces
    /\ summary' = RestoredSummary
    /\ sources' = RestoredSources
    /\ searchResultsBackup' = <<>>
    /\ Render(mapCenter, mapZoom, RestoredPlaces, mapView, pendingMoveEnd, TRUE)
    /\ lastOp' = Op("dbClose", 0)
    /\ popup' = <<>>
    /\ UNCHANGED <<isLoading, userLocation, mapCenter, mapZoom, selectedPlaceId,
                   previousViewState, savedPlaces, storage, isLocating, netVars,
                   respOf, viewAtQuery, viewAtSnap, publishedBefore, sentLocation, noticeVars, openedOver>>

\* the places a save-all of ps leaves in the store
RECURSIVE SaveAllInto(_, _)
SaveAllInto(newSaved, ps) ==
    IF ps = <<>> THEN newSaved
    ELSE LET place == ps[1]
             exists == \E i \in 1..Len(newSaved) :
                          /\ newSaved[i].name = place.name
                          /\ Abs(newSaved[i].coordinate.lat - place.coordinate.lat)
                                 < SaveTolTicks
         IN  SaveAllInto(IF exists THEN newSaved ELSE Append(newSaved, place), Tail(ps))

\* the notices of the results card
StoredNotice == "Stored to database"
AlreadyNotice == "Locations already in database"
ErrorNotice == "Error saving data."

\* the store accepts the write: the notice is set and a timer will clear it
handleSaveAllToDatabase ==
    /\ summary # <<>> /\ ~showDatabase
    /\ dbTimer < MaxTimers
    /\ storage' = SaveAllInto(storage, places)
    /\ savedPlaces' = SaveAllInto(storage, places)
    /\ dbMessage' = IF Len(SaveAllInto(storage, places)) > Len(storage)
                    THEN <<StoredNotice>> ELSE <<AlreadyNotice>>
    /\ dbTimer' = dbTimer + 1
    /\ NoRender
    /\ lastOp' = Op("saveAll", 0)
    /\ UNCHANGED <<appVars, showDatabase, isLocating, netVars, respOf, viewAtQuery,
                   viewAtSnap, publishedBefore, sentLocation, popup, openedOver>>

\* the store throws on the read or the write of a save-all: the catch branch
\* sets the error notice and starts no timer
SaveAllFails ==
    /\ summary # <<>> /\ ~showDatabase
    /\ dbMessage' = <<ErrorNotice>>
    /\ NoRender
    /\ lastOp' = Op("saveAllFailed", 0)
    /\ UNCHANGED <<appVars, overlayVars, netVars, respOf, viewAtQuery, viewAtSnap,
                   publishedBefore, sentLocation, popup, dbTimer, openedOver>>

\* a timer of an accepted save-all fires and removes whatever notice is shown
DbMessageTimeout ==
    /\ dbTimer > 0
    /\ dbTimer' = dbTimer - 1
    /\ dbMessage' = <<>>
    /\ NoRender
    /\ lastOp' = Op("noticeTimeout", 0)
    /\ UNCHANGED <<appVars, overlayVars, netVars, respOf, viewAtQuery, viewAtSnap,
                   publishedBefore, sentLocation, popup, openedOver>>

\* the saved-places view opens and the store throws on the read: loadDatabase
\* logs, returns the empty list and leaves savedPlaces and the notice alone
OpenDatabaseReadFails ==
    /\ ~showDatabase
    /\ showDatabase' = TRUE
    /\ searchResultsBackup' =
         IF searchResultsBackup = <<>>
         THEN <<[places |-> places, summary |-> summary, sources |-> sources]>>
         ELSE searchResultsBackup
    /\ places' = <<>>
    /\ Render(mapCenter, mapZoom, <<>>, mapView, pendingMoveEnd, TRUE)
    /\ lastOp' = Op("dbOpenFailed", 0)
    /\ openedOver' = <<[places |-> places, summary |-> summary, sources |-> sources]>>
    /\ popup' = <<>>
    /\ UNCHANGED <<summary, sources, isLoading, userLocation, mapCenter, mapZoom,
                   selectedPlaceId, previousViewState, savedPlaces, storage, isLocating,
                   netVars, respOf, viewAtQuery, viewAtSnap, publishedBefore, sentLocation, noticeVars>>

\* the records a removal of (placeId, placeName) keeps
RECURSIVE RemoveFrom(_, _, _)
RemoveFrom(saved, placeId, placeName) ==
    IF saved = <<>> THEN <<>>
    ELSE IF saved[1].id # placeId /\ saved[1].name # placeName
         THEN <<saved[1]>> \o RemoveFrom(Tail(saved), placeId, placeName)
         ELSE RemoveFrom(Tail(saved), placeId, placeName)

\* a remove button whose update of the map takes a new backup of what is displayed
removeFromDatabaseTakingBackup(i) ==
    /\ showDatabase
    /\ i \in 1..Len(savedPlaces)
    /\ savedPlaces' = RemoveFrom(savedPlaces, savedPlaces[i].id, savedPlaces[i].name)
    /\ storage' = RemoveFrom(savedPlaces, savedPlaces[i].id, savedPlaces[i].name)
    /\ searchResultsBackup' = <<[places |-> places, summary |-> summary, sources |-> sources]>>
    /\ places' = RemoveFrom(savedPlaces, savedPlaces[i].id, savedPlaces[i].name)
    /\ Render(mapCenter, mapZoom,
              RemoveFrom(savedPlaces, savedPlaces[i].id, savedPlaces[i].name),
              mapView, pendingMoveEnd, TRUE)
    /\ lastOp' = Op("dbRemove", 0)
    /\ popup' = <<>>
    /\ UNCHANGED <<summary, sources, isLoading, userLocation, mapCenter, mapZoom,
                   selectedPlaceId, previousViewState, showDatabase, isLocating, netVars,
                   respOf, viewAtQuery, viewAtSnap, publishedBefore, sentLocation,
                   noticeVars, openedOver>>

\* the remove button of a record of the saved-places view
removeFromDatabase(i) ==
    /\ showDatabase
    /\ i \in 1..Len(savedPlaces)
    /\ savedPlaces' = RemoveFrom(savedPlaces, savedPlaces[i].id, savedPlaces[i].name)
    /\ storage' = RemoveFrom(savedPlaces, savedPlaces[i].id, savedPlaces[i].name)
    /\ searchResultsBackup' =
         IF searchResultsBackup = <<>>
         THEN <<[places |-> places, summary |-> summary, sources |-> sources]>>
         ELSE searchResultsBackup
    /\ places' = RemoveFrom(savedPlaces, savedPlaces[i].id, savedPlaces[i].name)
    /\ Render(mapCenter, mapZoom,
              RemoveFrom(savedPlaces, savedPlaces[i].id, savedPlaces[i].name),
              mapView, pendingMoveEnd, TRUE)
    /\ lastOp' = Op("dbRemove", 0)
    /\ popup' = <<>>
    /\ UNCHANGED <<summary, sources, isLoading, userLocation, mapCenter, mapZoom,
                   selectedPlaceId, previousViewState, showDatabase, isLocating, netVars,
                   respOf, viewAtQuery, viewAtSnap, publishedBefore, sentLocation, noticeVars, openedOver>>

RemovesFromDatabase == \E i \in 1..Len(savedPlaces) : removeFromDatabase(i)

(***************************************************************************)
(* PlacePopup: the popup of a marker.  Its content mounts when the popup    *)
(* opens; the mount effect reads the store once and sets isSaved, and       *)
(* toggleSave trusts isSaved.  The key of a place is its name and both      *)
(* coordinates at five decimals, which tells apart every two ticks.         *)
(***************************************************************************)
SameKey(p, q) == p.name = q.name /\ p.coordinate = q.coordinate

\* the records of saved whose key is not that of place
RECURSIVE WithoutKey(_, _)
WithoutKey(saved, place) ==
    IF saved = <<>> THEN <<>>
    ELSE IF SameKey(saved[1], place)
         THEN WithoutKey(Tail(saved), place)
         ELSE <<saved[1]>> \o WithoutKey(Tail(saved), place)

OpenPopup(i) ==
    /\ i \in 1..Len(safePlaces(places))
    /\ popup' = <<[place |-> safePlaces(places)[i],
                   isSaved |-> \E j \in 1..Len(storage) :
                                  SameKey(storage[j], safePlaces(places)[i])]>>
    /\ NoRender
    /\ lastOp' = Op("popupOpen", 0)
    /\ UNCHANGED <<appVars, overlayVars, netVars, respOf, viewAtQuery, viewAtSnap,
                   publishedBefore, sentLocation, noticeVars, openedOver>>

OpenPopups == \E i \in 1..Len(places) : OpenPopup(i)

ClosePopup ==
    /\ popup # <<>>
    /\ popup' = <<>>
    /\ NoRender
    /\ lastOp' = Op("popupClose", 0)
    /\ UNCHANGED <<appVars, overlayVars, netVars, respOf, viewAtQuery, viewAtSnap,
                   publishedBefore, sentLocation, noticeVars, openedOver>>

toggleSave ==
    /\ popup # <<>>
    /\ storage' = IF popup[1].isSaved
                  THEN WithoutKey(storage, popup[1].place)
                  ELSE Append(storage, popup[1].place)
    /\ popup' = <<[place |-> popup[1].place, isSaved |-> ~popup[1].isSaved]>>
    /\ NoRender
    /\ lastOp' = Op("toggleSave", 0)
    /\ UNCHANGED <<appVars, showDatabase, savedPlaces, isLocating, netVars, respOf,
                   viewAtQuery, viewAtSnap, publishedBefore, sentLocation, noticeVars,
                   openedOver>>

(***************************************************************************)
(* The specifications.  Next is every handler of the program.  The state   *)
(* holds several independent copies of the viewport (the state, the map's  *)
(* view, the snapshot, the closure of a pending location callback), so the *)
(* claims are checked under scenarios that each take the handlers a group  *)
(* of claims is about.                                                     *)
(***************************************************************************)
SearchResolves ==
    \E n \in 1..MaxQueries, r \in 1..Len(RawResponses) : SearchResolved(n, r)
SearchFails == \E n \in 1..MaxQueries : SearchFailed(n)
TextResolves == \E n \in 1..MaxQueries, t \in Texts : TextResolved(n, t)
MapGestures == \E c \in GestureCenters, z \in GestureZooms : MapGesture(c, z)

Next ==
    \/ GeoSuccess
    \/ GeoError
    \/ handleSubmit
    \/ handleSubmitRefused
    \/ handleSuggestionClick
    \/ SearchResolves
    \/ TextResolves
    \/ SearchFails
    \/ handleClear
    \/ PlaceClicked
    \/ handleCurrentLocationClick
    \/ LocateSuccess
    \/ LocateError
    \/ MapGestures
    \/ MoveEnd
    \/ handleZoomIn
    \/ handleZoomOut
    \/ OpenDatabase
    \/ CloseDatabase
    \/ handleSaveAllToDatabase
    \/ SaveAllFails
    \/ DbMessageTimeout
    \/ OpenDatabaseReadFails
    \/ RemovesFromDatabase
    \/ OpenPopups
    \/ ClosePopup
    \/ toggleSave

Spec == Init /\ [][Next]_vars

\* the query lifecycle: overlapping queries from the form and the suggestions
NextSearch ==
    \/ GeoSuccess
    \/ GeoError
    \/ handleSubmit
    \/ handleSuggestionClick
    \/ SearchResolves
    \/ SearchFails
    \/ handleClear
    \/ PlaceClicked
    \/ MoveEnd

SpecSearch == Init /\ [][NextSearch]_vars

\* the query lifecycle without overlap: the form refuses a query while one is loading
NextSequential ==
    \/ GeoSuccess
    \/ GeoError
    \/ handleSubmit
    \/ SearchResolves
    \/ SearchFails
    \/ handleClear
    \/ PlaceClicked
    \/ MoveEnd

SpecSequential == Init /\ [][NextSequential]_vars

\* the user searches once
SubmitFirstQuery == nextSeq = 1 /\ handleSubmit

\* the map: one query, then place selection, a gesture, the zoom buttons, clear
NextView ==
    \/ SubmitFirstQuery
    \/ SearchResolves
    \/ PlaceClicked
    \/ MapGesture(NearCentralPark, SelectZoom)
    \/ MoveEnd
    \/ handleZoomIn
    \/ handleZoomOut
    \/ handleClear

SpecView == Init /\ [][NextView]_vars

\* the snapshot: one query, the current-location button, gestures, clear
NextClear ==
    \/ SubmitFirstQuery
    \/ SearchResolves
    \/ SearchFails
    \/ PlaceClicked
    \/ MapGestures
    \/ MoveEnd
    \/ handleClear
    \/ handleCurrentLocationClick
    \/ LocateSuccess
    \/ LocateError

SpecClear == Init /\ [][NextClear]_vars

\* the zoom buttons, on a map the user also zooms by gesture
NextZoom ==
    \/ SubmitFirstQuery
    \/ SearchResolves
    \/ PlaceClicked
    \/ MapGesture(NearCentralPark, 2)
    \/ MoveEnd
    \/ handleZoomIn
    \/ handleZoomOut

SpecZoom == Init /\ [][NextZoom]_vars

\* the saved-places view: opened and closed around a query, the records saved from
\* a result and removed again, the location button
NextDatabase ==
    \/ SubmitFirstQuery
    \/ SearchResolves
    \/ OpenDatabase
    \/ CloseDatabase
    \/ handleSaveAllToDatabase
    \/ DbMessageTimeout
    \/ RemovesFromDatabase
    \/ handleCurrentLocationClick
    \/ LocateSuccess

SpecDatabase == Init /\ [][NextDatabase]_vars

\* the store: results saved from the results card, with a store that can refuse
\* a read or a write, and the timers of the notice
TwinsResolves == \E n \in 1..MaxQueries : TextResolved(n, TwinsText)

NextStore ==
    \/ handleSubmit
    \/ SearchResolves
    \/ TwinsResolves
    \/ handleSaveAllToDatabase
    \/ SaveAllFails
    \/ DbMessageTimeout
    \/ OpenDatabase
    \/ OpenDatabaseReadFails
    \/ CloseDatabase

SpecStore == Init /\ [][NextStore]_vars

\* selection: a place of a result is selected, the saved-places view is opened
\* and closed, the result is cleared
NextSelect ==
    \/ SubmitFirstQuery
    \/ SearchResolves
    \/ PlaceClicked
    \/ OpenDatabase
    \/ CloseDatabase
    \/ handleClear

SpecSelect == Init /\ [][NextSelect]_vars

\* the two ways to save: save-all on the results card and the popup of a marker
NextPopup ==
    \/ SubmitFirstQuery
    \/ SearchResolves
    \/ OpenPopups
    \/ ClosePopup
    \/ toggleSave
    \/ handleSaveAllToDatabase
    \/ DbMessageTimeout

SpecPopup == Init /\ [][NextPopup]_vars

\* re-submission: both entry points of the search UI, with the calls they start
NextResubmit ==
    \/ handleSubmit
    \/ handleSubmitRefused
    \/ handleSuggestionClick
    \/ SearchResolves
    \/ SearchFails
    \/ handleClear
    \/ PlaceClicked
    \/ MoveEnd

SpecResubmit == Init /\ [][NextResubmit]_vars

\* submission: a query submitted after gestures and from the saved-places view
NextSnapshot ==
    \/ GeoSuccess
    \/ MapGesture(NearCentralPark, 2)
    \/ MoveEnd
    \/ OpenDatabase
    \/ CloseDatabase
    \/ handleSubmit
    \/ handleSuggestionClick
    \/ SearchResolves

SpecSnapshot == Init /\ [][NextSnapshot]_vars

\* extraction: one query, answered by any of the texts
NextExtract ==
    \/ SubmitFirstQuery
    \/ TextResolves

SpecExtract == Init /\ [][NextExtract]_vars

(***************************************************************************)
(* The claims.                                                             *)
(***************************************************************************)
LatestSeq == nextSeq - 1

\* the published result is the response the call of query n resolved to
PublishedIs(n) ==
    /\ summary = ResponseTable[n, respOf[n]].text
    /\ places = ResponseTable[n, respOf[n]].places
    /\ sources = ResponseTable[n, respOf[n]].sources

\* C1: when the call of a query resolves after a newer query was submitted, its
\* text, places and sources are not published; the latest query's resolution
\* publishes the latest query's response.
C1_Supersession ==
    lastOp.op = "resolved" =>
        IF lastOp.seq < LatestSeq THEN ~PublishedIs(lastOp.seq) ELSE PublishedIs(LatestSeq)

\* C2: when the call of the latest query fails, the places and sources published
\* before that query was submitted are still published, with the apology message.
C2_FailureKeepsPrevious ==
    (lastOp.op = "failed" /\ lastOp.seq = LatestSeq) =>
        /\ places = publishedBefore.places
        /\ sources = publishedBefore.sources
        /\ summary = ApologyText

\* C3: every published place has a latitude in [-90, 90] and a longitude in
\* [-180, 180].
C3_PublishedInRange ==
    \A i \in 1..Len(places) : InRange(places[i].coordinate)

\* C4: fit-bounds is emitted exactly once for a published non-empty place set,
\* and never again while that set stays displayed.
C4_FitOncePerSet ==
    fitsForSet = IF safePlaces(places) # <<>> THEN 1 ELSE 0

\* C5: after a gesture-completion report, whose center and zoom are the map's own,
\* the reconciler emits neither fit-bounds nor fly-to, whatever places are displayed.
C5_ReportIsNoOp ==
    lastOp.op \in {"gesture", "moveend"} =>
        \A i \in 1..Len(lastCmds) : lastCmds[i].kind = "none"

\* C6 as claimed: clear empties the published result and sets the viewport to the
\* one current when the most recent query was submitted; it leaves the viewport
\* unchanged if no query was ever submitted.
C6_ClearRestoresQueryView ==
    [][handleClear =>
        /\ places' = <<>> /\ summary' = <<>> /\ sources' = <<>>
        /\ IF viewAtQuery # <<>>
           THEN mapCenter' = viewAtQuery[1].center /\ mapZoom' = viewAtQuery[1].zoom
           ELSE UNCHANGED <<mapCenter, mapZoom>>]_vars

\* C6 as amended: clear empties the published result and sets the viewport to the
\* one current when the most recent query was submitted or, if a current-location
\* place was added after that, when the location button was pressed; it leaves the
\* viewport unchanged if neither ever happened.
C6_ClearRestoresSnapshot ==
    [][handleClear =>
        /\ places' = <<>> /\ summary' = <<>> /\ sources' = <<>>
        /\ IF viewAtSnap # <<>>
           THEN mapCenter' = viewAtSnap[1].center /\ mapZoom' = viewAtSnap[1].zoom
           ELSE UNCHANGED <<mapCenter, mapZoom>>]_vars

\* a clear restored the viewport of a location-button press, not that of the query
C6_Witness ==
    /\ lastOp.op = "clear"
    /\ viewAtQuery # <<>> /\ viewAtSnap # viewAtQuery
    /\ Viewport = viewAtSnap[1]
    /\ places = <<>>

C8_FitTakesPrecedence ==
    [][(/\ Len(lastCmds') = 1
        /\ lastOp'.op \in {"resolved", "addPlace", "dbOpen", "dbClose"}
        /\ safePlaces(places') # <<>>
        /\ \/ DistExceeds(mapView.center, safeCenter(mapCenter'), EpsTicks)
           \/ mapView.zoom # mapZoom')
       => lastCmds' = <<FitCmd(latLngBounds(safePlaces(places')))>>]_vars

\* the location button's place arrived with a new center and zoom: one fit-bounds
C8_Witness ==
    /\ lastOp.op = "addPlace"
    /\ previousViewState # <<Viewport>>
    /\ lastCmds = <<FitCmd(latLngBounds(places))>>

\* C9: no fly-to is emitted toward a candidate center that is out of range.
C9_InvalidCenterNoFly ==
    \A i \in 1..Len(lastCmds) :
        lastCmds[i].kind = "fly" => InRange(lastCmds[i].center)

\* C10: a fit-bounds targets the smallest rectangle enclosing the places whose
\* coordinates are valid (finite and in range), with the fixed padding, and the
\* zoom it ends at is at most 16.
C10_FitEnclosesValidPlaces ==
    (Len(lastCmds) = 1 /\ lastCmds[1].kind = "fit") =>
        /\ SelectSeq(places, LAMBDA p : InRange(p.coordinate)) # <<>>
        /\ lastCmds[1].bounds =
               latLngBounds(SelectSeq(places, LAMBDA p : InRange(p.coordinate)))
        /\ lastCmds[1].padding = FitPadding
        /\ lastCmds[1].maxZoom = FitMaxZoom
        /\ mapView.zoom <= FitMaxZoom

\* C11: whenever a transport call is in flight the busy flag isLoading is true;
\* the flag is false only when no call is in flight.
C11_BusyWhileInFlight ==
    inflight # {} => isLoading

\* C12: a query submitted from the search UI while another query is in flight,
\* by the form or by a suggestion click, starts a new query: a new transport call
\* is dispatched for it.
C12_ResubmitSupersedes ==
    [][((handleSubmit \/ handleSubmitRefused \/ handleSuggestionClick) /\ inflight # {})
       => (nextSeq' = nextSeq + 1 /\ inflight' = inflight \cup {nextSeq})]_vars

\* C13: right after a query is submitted, before its call resolves, the
\* previous-viewport snapshot is the center and zoom current at the submission,
\* the saved-view backup slot is empty and the busy flag is true.
C13_SubmitSnapshots ==
    lastOp.op \in {"submit", "suggestion"} =>
        /\ previousViewState = <<[center |-> mapCenter, zoom |-> mapZoom]>>
        /\ searchResultsBackup = <<>>
        /\ isLoading

\* a query was submitted from the saved-places view, away from the initial viewport
C13_Witness ==
    /\ lastOp.op = "submit"
    /\ lastOp.seq \in inflight
    /\ Len(lastCmds) = 2
    /\ previousViewState = <<[center |-> NearCentralPark, zoom |-> 2]>>

\* C14: when the call of the latest query succeeds, the published result is
\* exactly the response: the summary is the response text, the places are the
\* extractor's output over that text, in order, and the sources are the response's
\* sources; nothing of the result published before is kept.
C14_SuccessReplacesResult ==
    (lastOp.op = "resolved" /\ lastOp.seq = LatestSeq) =>
        LET raw == RawResponses[respOf[lastOp.seq]]
            web == SelectSeq(raw.chunks, LAMBDA c : c.web)
        IN  /\ summary = IF raw.text = <<>> THEN NoLocationsText ELSE raw.text
            /\ places = parseCoordinatesFromText(summary, 10 * lastOp.seq)
            /\ sources = [i \in 1..Len(web) |-> web[i].id]

\* a second query resolved with three places over a first result of one place
C14_Witness ==
    /\ lastOp = Op("resolved", 2)
    /\ respOf = <<1, 2>>
    /\ publishedBefore.places # <<>>
    /\ Len(places) = 3

\* C15: a failed transport call writes no viewport field: mapCenter, mapZoom and
\* the previous-viewport snapshot are after the failure what they were just before
\* it; the summary is the apology message and the busy flag is cleared.
C15_FailureKeepsViewport ==
    [][SearchFails =>
        /\ UNCHANGED <<mapCenter, mapZoom, previousViewState>>
        /\ summary' = ApologyText
        /\ ~isLoading']_vars

\* a call failed after the viewport had moved away from the snapshot
C15_Witness ==
    /\ lastOp.op = "failed"
    /\ previousViewState # <<>> /\ previousViewState # <<Viewport>>
    /\ summary = ApologyText
    /\ ~isLoading

\* C16: in every reachable state the zoom held by the session, mapZoom, is an
\* integer in the fixed range 3..18.
C16_ZoomInRange ==
    mapZoom \in ZoomButtonMin..ZoomButtonMax

\* the coordinates of the well-formed annotations of the text t, in text order
AnnCoords(t) ==
    LET anns == SelectSeq(t, LAMBDA x : x.k = "ann")
    IN  [i \in 1..Len(anns) |-> [lat |-> anns[i].a, lng |-> anns[i].b]]

PlaceCoords(ps) == [i \in 1..Len(ps) |-> ps[i].coordinate]

\* the words of the sentence of t that stand before position p
WordsBefore(t, p) ==
    LET ends == {j \in 1..(p - 1) : t[j].k \in {"nl", "punct"}}
        from == IF ends = {} THEN 1 ELSE 1 + CHOOSE j \in ends : \A k \in ends : k <= j
    IN  SelectSeq(SubSeq(t, from, p - 1), LAMBDA x : x.k = "word")

\* a is b with some elements left out
RECURSIVE IsSubseq(_, _)
IsSubseq(a, b) ==
    IF a = <<>> THEN TRUE
    ELSE IF b = <<>> THEN FALSE
    ELSE IF a[1] = b[1] THEN IsSubseq(Tail(a), Tail(b))
    ELSE IsSubseq(a, Tail(b))

\* C17: the place of an annotation that a name token precedes in its sentence is
\* named by that token, emphasis markers stripped; the placeholder Unknown Location
\* names a place only when there is no such token.
C17_NameIsPrecedingToken ==
    (lastOp.op = "resolvedText" /\ Len(AnnCoords(summary)) = 1 /\ Len(places) = 1) =>
        LET p == CHOOSE i \in 1..Len(summary) : summary[i].k = "ann"
            words == WordsBefore(summary, p)
        IN  places[1].name = IF words # <<>> THEN <<words[1]>> ELSE UnknownLocation

\* C18: in a text with a mention whose capture is no well-formed number, that
\* mention yields no place and every well-formed mention still yields its place,
\* wherever the malformed one stands.
C18_MalformedIsIsolated ==
    (lastOp.op = "resolvedText" /\ \E i \in 1..Len(summary) : summary[i].k = "badann") =>
        PlaceCoords(places) = AnnCoords(summary)

\* C19: a text with n well-formed annotations yields exactly n places, also when
\* several annotations stand on one line with no sentence end between them.
C19_OnePlacePerAnnotation ==
    lastOp.op = "resolvedText" => Len(places) = Len(AnnCoords(summary))

\* C20: the places come in the order of their annotations in the text.
C20_PlacesInTextOrder ==
    lastOp.op = "resolvedText" => IsSubseq(PlaceCoords(places), AnnCoords(summary))

\* two places of different coordinates were extracted from one text
C20_Witness ==
    /\ lastOp.op = "resolvedText"
    /\ Len(places) >= 2
    /\ places[1].coordinate # places[2].coordinate

\* C21: a reply that holds no well-formed annotation (none at all, or only
\* annotations with a capture that is no number) is published with an empty
\* place list, and as the reply itself, not as the failure apology.
C21_NoAnnotationNoPlace ==
    (lastOp.op = "resolvedText" /\ AnnCoords(summary) = <<>>)
        => (places = <<>> /\ summary # ApologyText /\ ~isLoading)

C21_Witness ==
    lastOp.op = "resolvedText" /\ summary = NotNumberText /\ places = <<>>

\* two place lists agree position by position on name, lat and lng
SameUpToIds(ps, qs) ==
    /\ Len(ps) = Len(qs)
    /\ \A i \in 1..Len(ps) : ps[i].name = qs[i].name /\ ps[i].coordinate = qs[i].coordinate

C25_SelectFliesToPlace ==
    lastOp.op = "placeClick" =>
        /\ mapZoom = SelectZoom
        /\ \E i \in 1..Len(places) :
               selectedPlaceId = <<places[i].id>> /\ mapCenter = places[i].coordinate
        /\ \A i \in 1..Len(lastCmds) : lastCmds[i].kind # "fit"

\* C26: a gesture-completion report (newCenter, newZoom) sets the viewport state
\* to exactly these values, the update it causes emits no fly-to, and the stored
\* user location becomes newCenter; a query submitted next sends the stored user
\* location, so the reported center, as its bias.
C26_ReportSetsViewport ==
    [][/\ \A c \in GestureCenters, z \in GestureZooms :
            MapGesture(c, z) =>
                /\ mapCenter' = c /\ mapZoom' = z
                /\ userLocation' = <<c>>
                /\ \A i \in 1..Len(lastCmds') : lastCmds'[i].kind # "fly"
       /\ MoveEnd =>
                /\ mapCenter' = mapView.center /\ mapZoom' = mapView.zoom
                /\ userLocation' = <<mapView.center>>
                /\ \A i \in 1..Len(lastCmds') : lastCmds'[i].kind # "fly"
       /\ (lastOp.op = "gesture" /\ lastOp'.op \in {"submit", "suggestion"})
            => sentLocation' = <<mapCenter>>]_vars

\* the location request is settled, the user moved the map, then submitted a query:
\* the bias sent is the reported center, not the device's position
C26_Witness ==
    /\ lastOp.op = "submit"
    /\ ~geoPending
    /\ sentLocation = <<NearCentralPark>>
    /\ mapCenter = NearCentralPark /\ mapZoom = 2

\* C27: the zoom-in button sets mapZoom to the smaller of mapZoom + 1 and 18, the
\* zoom-out button to the larger of mapZoom - 1 and 3; both leave mapCenter, the
\* published places, summary and sources, the selected place and the
\* previous-viewport snapshot as they were.
C27_ZoomButtonsStep ==
    [][(lastOp'.op \in {"zoomIn", "zoomOut"})
        => /\ mapZoom' = IF lastOp'.op = "zoomIn"
                         THEN Min(mapZoom + 1, ZoomButtonMax)
                         ELSE Max(mapZoom - 1, ZoomButtonMin)
           /\ UNCHANGED <<mapCenter, places, summary, sources, selectedPlaceId,
                          previousViewState>>]_vars

\* zoom-in at the upper limit, with a place selected and a snapshot taken
C27_Witness ==
    /\ lastOp.op = "zoomIn"
    /\ mapZoom = ZoomButtonMax
    /\ lastCmds = <<>>
    /\ selectedPlaceId # <<>>
    /\ previousViewState # <<>>

\* C30: once the location button has succeeded, the published places are exactly
\* the one place of the device's position and the summary names it, whether the
\* saved-places view was open or closed when the button was pressed.
C30_LocationPlacePublished ==
    lastOp.op = "addPlace" => (places = <<DevicePlace>> /\ summary = DeviceSummary)

\* C28: when the saved-places view is closed by its button, the published places,
\* summary and sources are exactly those the view was opened over, whatever
\* records were removed while it was open, and the backup slot is empty.
C28_CloseRestoresResult ==
    lastOp.op = "dbClose" =>
        /\ openedOver # <<>>
        /\ places = openedOver[1].places
        /\ summary = openedOver[1].summary
        /\ sources = openedOver[1].sources
        /\ searchResultsBackup = <<>>

\* closed over a result with places, after a removal emptied the store
C28_Witness ==
    /\ lastOp.op = "dbClose"
    /\ Len(places) > 1 /\ summary # <<>>
    /\ places = openedOver[1].places
    /\ storage = <<>>
    /\ dbTimer > 0

\* C29: a result that arrived while the saved-places view was open is published
\* after the view is closed: places, summary and sources are those of the response.
C29_ResultSurvivesClose ==
    [][(/\ lastOp'.op = "dbClose"
        /\ lastOp.op = "resolved"
        /\ respOf[lastOp.seq] >= 1)
       => /\ places' = ResponseTable[lastOp.seq, respOf[lastOp.seq]].places
          /\ summary' = ResponseTable[lastOp.seq, respOf[lastOp.seq]].text
          /\ sources' = ResponseTable[lastOp.seq, respOf[lastOp.seq]].sources]_vars

\* C23: after a save-all, every displayed place has a stored record of its name
\* whose latitude and longitude both agree with the place's within the tolerance:
\* a place that differs from every stored record of its name in longitude was
\* added as a new record.
C23_SaveAllComparesBoth ==
    lastOp.op = "saveAll" =>
        \A i \in 1..Len(places) :
            \E j \in 1..Len(storage) :
                /\ storage[j].name = places[i].name
                /\ Abs(storage[j].coordinate.lat - places[i].coordinate.lat) < SaveTolTicks
                /\ Abs(storage[j].coordinate.lng - places[i].coordinate.lng) < SaveTolTicks

\* C24: a refused write of the store (save-all) or a refused read (opening the
\* saved-places view) leaves the published result, the viewport and the snapshot
\* as they were and shows a notice that will go away by itself: when the step
\* is done a notice is on display and a timer that clears it is pending.
C24_FailureIsNoticedBriefly ==
    [][/\ (lastOp'.op = "saveAllFailed")
            => /\ UNCHANGED <<places, summary, sources, mapCenter, mapZoom,
                              previousViewState>>
               /\ dbMessage' # <<>> /\ dbTimer' > 0
       /\ (lastOp'.op = "dbOpenFailed")
            => /\ UNCHANGED <<summary, sources, mapCenter, mapZoom, previousViewState>>
               /\ searchResultsBackup' # <<>> /\ searchResultsBackup'[1].places = places
               /\ dbMessage' # <<>> /\ dbTimer' > 0]_vars

\* C31: the device's position only seeds the first viewport.  A position that
\* arrives after the user moved the map, selected a place or submitted a query
\* leaves mapCenter as it is; a refused or failed position request leaves
\* mapCenter, mapZoom and the user location as they are, so that a session in
\* which nothing else happened stays at the default viewport with no user location.
C31_PositionOnlySeeds ==
    [][/\ (/\ lastOp'.op = "geo"
            /\ \/ userLocation # <<>>
               \/ selectedPlaceId # <<>>
               \/ nextSeq > 1)
           => mapCenter' = mapCenter
       /\ (lastOp'.op = "geoError")
           => /\ UNCHANGED <<mapCenter, mapZoom, userLocation>>
              /\ (lastOp.op = "mount"
                    => /\ mapCenter' = DEFAULT_CENTER /\ mapZoom' = DEFAULT_ZOOM
                       /\ userLocation' = <<>>)]_vars

\* C32: once the transport call of a query has resolved or failed (a missing API
\* key is a failure of the call), the busy flag is false, which is what the form
\* asks for before it accepts a submission.
C32_SettledEndsBusy ==
    lastOp.op \in {"resolved", "failed"} => ~isLoading

\* the first query failed and the form accepted a second one
C32_Witness ==
    /\ lastOp = Op("submit", 2)
    /\ respOf[1] = -2
    /\ isLoading
    /\ summary = <<>>

\* C33: a defined selectedPlaceId is the id of one of the published places.
C33_SelectedIsPublished ==
    selectedPlaceId # <<>> =>
        \E i \in 1..Len(places) : places[i].id = selectedPlaceId[1]

\* no two records of the store have the same name and coordinates within the
\* tolerance
NoDuplicateRecords(saved) ==
    \A i, j \in 1..Len(saved) :
        (/\ i < j
         /\ saved[i].name = saved[j].name
         /\ Abs(saved[i].coordinate.lat - saved[j].coordinate.lat) < SaveTolTicks
         /\ Abs(saved[i].coordinate.lng - saved[j].coordinate.lng) < SaveTolTicks)
            => FALSE

\* C34: whatever save-all and the popups' save toggles do, in whatever order,
\* the store holds no two records of one location; and a save-all right after
\* a save-all over the same result adds nothing and reports that nothing was new.
C34_StoreHasNoDuplicates ==
    [][/\ NoDuplicateRecords(storage')
       /\ (lastOp.op = "saveAll" /\ lastOp'.op = "saveAll")
            => (storage' = storage /\ dbMessage' = <<AlreadyNotice>>)]_vars

\* the sequence s without its i-th element
RemoveAt(s, i) == SubSeq(s, 1, i - 1) \o SubSeq(s, i + 1, Len(s))

\* C35: the remove button of the saved-places view deletes exactly one record:
\* the store afterwards is the list of records shown before without one of them,
\* and the places on the map are that list.
C35_RemoveDeletesOne ==
    [][(lastOp'.op = "dbRemove")
        => /\ \E i \in 1..Len(savedPlaces) : storage' = RemoveAt(savedPlaces, i)
           /\ places' = storage'
           /\ savedPlaces' = storage']_vars

=============================================================================
